---- MODULE Spec2Model ----
(***************************************************************************)
(* Entitlement logic of the MaybeCook meal-plan bot (src/bot.py), the     *)
(* handlers that show the days of the plan and keep favourites, and the    *)
(* administrative updates of subscriptions and recipes                     *)
(* (src/admin/admin.py, src/admin/database_admin.py), the router of the    *)
(* inline buttons and the sessions of the admin panel (src/admin/auth.py). *)
(*                                                                         *)
(* Time is datetime.utcnow() counted in ticks; a calendar day is DayLen    *)
(* ticks, so that two instants of one day and the instant of midnight can  *)
(* be told apart.  The store is the users table; awaiting_ai is the        *)
(* per-user context.user_data flag kept in the bot process.                *)
(***************************************************************************)
EXTENDS Integers, FiniteSets, Sequences, TLC

\* ------------------------------------------------------------------ bounds
DayLen == 2
MaxTime == 4
MaxCount == 6
MaxRecipes == 2

\* ------------------------------------------------------- program constants
FREE_AI_QUESTIONS_PER_DAY == 5
FREE_DAYS_VISIBLE == 7
TRIAL_DAYS == 3
NULL == -1
LOCK_AFTER_DAY == 7
\* MAX_AGE of auth.py (eight hours), in ticks
MAX_AGE == 1
\* the fallback of os.getenv("ADMIN_SECRET_KEY", ...) in auth.py
DEFAULT_SECRET_KEY == "your-super-secret-key-change-in-production"

Users == {1}
Handlers == {1, 2}
Tiers == {"free", "basic", "pro"}
AdminDays == {0, 1}

\* what the subscription form of the admin panel can carry as tier: any
\* string
FormTiers == Tiers \cup {"gold"}

\* recipes.id
RecipeIds == 1 .. MaxRecipes

\* day numbers and meal types the recipe form can carry: any integer, any
\* string
FormDays == {FREE_DAYS_VISIBLE + 1, 31}
FormMeals == {"breakfast", "brunch"}

\* day numbers and meal types in the callback data of the day buttons
ViewDays == {FREE_DAYS_VISIBLE, FREE_DAYS_VISIBLE + 1}
ViewMeals == {"breakfast"}

VARIABLES
    now,          \* datetime.utcnow()
    store,        \* users table: telegram_id -> row, or NoUser
    awaiting_ai,  \* context.user_data['awaiting_ai'] per user
    reply,        \* last message the bot sent
    inflight,     \* handle_ai_message invocations between two awaits
    ev,           \* last evaluation of a decision function and its result
    answered,     \* history: answers given today to a user off the bypass path
    granted,      \* history: instant of the granted check not yet followed
                  \* by an increment, or NULL
    total,        \* history: counted questions answered to a user so far
    recipes,      \* recipes table: set of rows
    offered,      \* days whose buttons a user holds in messages of the bot
    favorites,    \* favorites table: number of rows per user and recipe id
    dup,          \* users rows of a telegram_id beside the one in store
    denied,       \* history: day of the last denial by the limit, or NULL
    cooking_history,  \* cooking_history table: rows per user and recipe id
    tokens,       \* session tokens issued by the admin login
    response,     \* last response of the admin panel
    secret_key    \* SECRET_KEY of auth.py, read from the environment

vars == <<now, store, awaiting_ai, reply, inflight, ev, answered, granted,
          total, recipes, offered, favorites,
          dup, denied, cooking_history, tokens, response, secret_key>>

\* the users table beyond one row per id, the cooking log and the admin
\* sessions: what no handler of the chat flow touches
aux == <<dup, cooking_history, tokens, response, secret_key>>

\* ----------------------------------------------------------------- helpers
NoUser == [exists |-> FALSE]

\* datetime.date(): the calendar day of an instant
Date(t) == t \div DayLen

\* timedelta(days=n)
Days(n) == n * DayLen

\* User(...) with the column defaults of models.py, as built by
\* get_or_create_user for a first interaction at instant t
NewUser(t) ==
    [exists |-> TRUE,
     subscription_type |-> "free",
     subscription_expires |-> t + Days(TRIAL_DAYS),
     ai_questions_today |-> 0,
     ai_questions_reset |-> t,
     last_active |-> t]

\* get_or_create_user: the store after the call
GetOrCreateStore(st, u, t) ==
    IF st[u] = NoUser
    THEN [st EXCEPT ![u] = NewUser(t)]
    ELSE [st EXCEPT ![u].last_active = t]

\* get_or_create_user: the (detached) user object it returns
GetOrCreateUser(st, u, t) == GetOrCreateStore(st, u, t)[u]

\* mutant of check_subscription: an expiry equal to now counts as active
CheckSubscription_Inclusive(user, t) ==
    IF user.subscription_expires # NULL /\ user.subscription_expires >= t
    THEN [active |-> TRUE,
          type |-> user.subscription_type,
          expires |-> user.subscription_expires,
          days_left |-> (user.subscription_expires - t) \div DayLen]
    ELSE [active |-> FALSE, type |-> "expired", days_left |-> 0]

\* mutant of check_subscription: a started day counts as a whole day left
CheckSubscription_RoundUp(user, t) ==
    IF user.subscription_expires # NULL /\ user.subscription_expires > t
    THEN [active |-> TRUE,
          type |-> user.subscription_type,
          expires |-> user.subscription_expires,
          days_left |-> (user.subscription_expires - t + DayLen - 1) \div DayLen]
    ELSE [active |-> FALSE, type |-> "expired", days_left |-> 0]

\* check_subscription
CheckSubscription(user, t) ==
    IF user.subscription_expires # NULL /\ user.subscription_expires > t
    THEN [active |-> TRUE,
          type |-> user.subscription_type,
          expires |-> user.subscription_expires,
          days_left |-> (user.subscription_expires - t) \div DayLen]
    ELSE [active |-> FALSE, type |-> "expired", days_left |-> 0]

\* mutant of check_subscription: the tier of a lapsed subscription is
\* written back to the object as "free"
CheckSubscriptionUser_Downgrade(user, t) ==
    IF user.subscription_expires # NULL /\ user.subscription_expires > t
    THEN user
    ELSE [user EXCEPT !.subscription_type = "free"]

\* check_subscription: the user object after the call (it assigns nothing)
CheckSubscriptionUser(user, t) == user

\* can_view_day: the user object after the call; the only thing done with
\* it is the call of check_subscription
CanViewDayUser(user, day, t) == CheckSubscriptionUser(user, t)

\* mutant of can_view_day: the last free day is locked as well
CanViewDay_Strict(user, day, t) ==
    IF CheckSubscription(user, t).active THEN TRUE ELSE day < FREE_DAYS_VISIBLE

\* can_view_day
CanViewDay(user, day, t) ==
    IF CheckSubscription(user, t).active THEN TRUE ELSE day <= FREE_DAYS_VISIBLE

\* can_use_ai, first return: active subscription of tier basic or pro
Bypass(user, t) ==
    LET sub == CheckSubscription(user, t)
    IN sub.active /\ sub.type \in {"basic", "pro"}

\* mutant of can_use_ai: the instants are compared, not their dates
CanUseAiUser_Instant(user, t) ==
    IF Bypass(user, t) THEN user
    ELSE IF user.ai_questions_reset # t
         THEN [user EXCEPT !.ai_questions_today = 0, !.ai_questions_reset = t]
         ELSE user

\* mutant of can_use_ai: the counter is never reset
CanUseAiUser_NoReset(user, t) == user

\* can_use_ai: the user object after the call (the lazy reset)
CanUseAiUser(user, t) ==
    IF Bypass(user, t) THEN user
    ELSE IF Date(user.ai_questions_reset) # Date(t)
         THEN [user EXCEPT !.ai_questions_today = 0, !.ai_questions_reset = t]
         ELSE user

\* can_use_ai raises: off the bypass path it calls .date() on
\* ai_questions_reset, and compares ai_questions_today with the limit when
\* the dates agree; either fails on None
CanUseAiRaises(user, t) ==
    /\ ~Bypass(user, t)
    /\ \/ user.ai_questions_reset = NULL
       \/ /\ Date(user.ai_questions_reset) = Date(t)
          /\ user.ai_questions_today = NULL

\* mutant of can_use_ai: the limit itself is still allowed
CanUseAi_AtMost(user, t) ==
    IF Bypass(user, t) THEN TRUE
    ELSE CanUseAiUser(user, t).ai_questions_today <= FREE_AI_QUESTIONS_PER_DAY

\* can_use_ai: the value it returns
CanUseAi(user, t) ==
    IF Bypass(user, t) THEN TRUE
    ELSE CanUseAiUser(user, t).ai_questions_today < FREE_AI_QUESTIONS_PER_DAY

\* mutant of handle_ai_message: every question is counted
Charged_Everyone(user) == TRUE

\* handle_ai_message: whether the question is counted
Charged(user) == user.subscription_type = "free"

\* handle_ai_message: the user object after the increment
Consume(user) ==
    IF Charged(user)
    THEN [user EXCEPT !.ai_questions_today = @ + 1]
    ELSE user

\* session.merge(user); session.commit(): the row takes the object's state
Merge(st, u, user) == [st EXCEPT ![u] = user]

NoReply == [kind |-> "none", to |-> 0, shown |-> FALSE, remaining |-> 0]

\* a handler slot with no invocation in it
Idle == [pc |-> "idle"]

NoEval == [op |-> "none"]

\* -------------------------------------------------------------------- Init
Init ==
    /\ now = 0
    /\ store = [u \in Users |-> NoUser]
    /\ awaiting_ai = [u \in Users |-> "unset"]
    /\ reply = NoReply
    /\ inflight = [h \in Handlers |-> Idle]
    /\ ev = NoEval
    /\ answered = [u \in Users |-> 0]
    /\ granted = [u \in Users |-> NULL]
    /\ total = [u \in Users |-> 0]
    /\ recipes = {}
    /\ offered = [u \in Users |-> {}]
    /\ favorites = [u \in Users |-> [r \in RecipeIds |-> 0]]
    /\ dup = [u \in Users |-> 0]
    /\ denied = [u \in Users |-> NULL]
    /\ cooking_history = [u \in Users |-> [r \in RecipeIds |-> 0]]
    /\ tokens = {}
    /\ response = [status |-> "none"]
    /\ secret_key = DEFAULT_SECRET_KEY

\* ----------------------------------------------------------------- actions
\* the clock advances; the history of the day starts again at midnight
Tick ==
    /\ now < MaxTime
    /\ now' = now + 1
    /\ answered' = IF Date(now + 1) # Date(now)
                   THEN [u \in Users |-> 0] ELSE answered
    /\ UNCHANGED aux
    /\ UNCHANGED denied
    /\ UNCHANGED <<store, awaiting_ai, reply, inflight, ev, granted>>
    /\ UNCHANGED <<total, recipes, offered, favorites>>

\* show_main_menu (/start and the back_main button)
ShowMainMenu(u) ==
    /\ store' = GetOrCreateStore(store, u, now)
    /\ reply' = [kind |-> "menu", to |-> u, shown |-> FALSE, remaining |-> 0]
    /\ UNCHANGED aux
    /\ UNCHANGED denied
    /\ UNCHANGED <<now, awaiting_ai, inflight, ev, answered, granted>>
    /\ UNCHANGED <<total, recipes, offered, favorites>>

\* start_ai_chat (the ask_ai button)
StartAiChat(u) ==
    LET user == GetOrCreateUser(store, u, now)
        ok == CanUseAi(user, now)
    IN /\ store' = GetOrCreateStore(store, u, now)
       /\ awaiting_ai' = IF ok THEN [awaiting_ai EXCEPT ![u] = "True"]
                         ELSE awaiting_ai
       /\ reply' = [kind |-> IF ok THEN "prompt" ELSE "limit",
                    to |-> u, shown |-> FALSE, remaining |-> 0]
       /\ granted' = IF ok THEN [granted EXCEPT ![u] = now] ELSE granted
       /\ denied' = IF ok THEN denied
                    ELSE [denied EXCEPT ![u] = Date(now)]
       /\ UNCHANGED aux
       /\ UNCHANGED <<now, inflight, ev, answered>>
       /\ UNCHANGED <<total, recipes, offered, favorites>>

\* mutant of handle_ai_message: the counter is raised in the row itself
CommitStore_Atomic(st, u, user) ==
    IF Charged(user)
    THEN [st EXCEPT ![u].ai_questions_today = @ + 1]
    ELSE st

\* handle_ai_message, lines 515-519: the store after the increment is merged
CommitStore(st, u, user) ==
    IF Charged(user) THEN Merge(st, u, Consume(user)) ELSE st

\* handle_ai_message as a function of the store, the awaiting_ai entry of
\* the process and the instant: whether the text is answered, and the store
\* it leaves
MessageOutcome(st, flag, u, t) ==
    IF flag = "True"
    THEN [answered |-> TRUE,
          store |-> CommitStore(GetOrCreateStore(st, u, t), u,
                                GetOrCreateUser(st, u, t))]
    ELSE [answered |-> FALSE, store |-> st]

\* handle_ai_message, lines 521-530: the answer, with the remaining questions
\* for a counted question (user is the object after the increment)
AnswerReply(u, user) ==
    [kind |-> "answer", to |-> u,
     shown |-> Charged(user),
     remaining |-> IF Charged(user)
                   THEN FREE_AI_QUESTIONS_PER_DAY - user.ai_questions_today
                   ELSE 0]

\* handle_ai_message with the flag set, handled without interruption:
\* one question answered
HandleAiMessage(u) ==
    LET user == GetOrCreateUser(store, u, now)
        st1 == GetOrCreateStore(store, u, now)
    IN /\ awaiting_ai[u] = "True"
       /\ answered[u] < MaxCount
       /\ user.ai_questions_today < MaxCount
       /\ store' = CommitStore(st1, u, user)
       /\ reply' = AnswerReply(u, Consume(user))
       /\ awaiting_ai' = [awaiting_ai EXCEPT ![u] = "False"]
       /\ answered' = IF Bypass(user, now) THEN answered
                      ELSE [answered EXCEPT ![u] = @ + 1]
       /\ granted' = IF Charged(user) THEN [granted EXCEPT ![u] = NULL]
                     ELSE granted
       /\ total' = IF Charged(user) THEN [total EXCEPT ![u] = @ + 1]
                   ELSE total
       /\ UNCHANGED aux
       /\ UNCHANGED denied
       /\ UNCHANGED <<now, inflight, ev>>
       /\ UNCHANGED <<recipes, offered, favorites>>

\* handle_ai_message under concurrent webhook requests, up to the first
\* await: the flag is tested and get_or_create_user loads the user
AiBegin(h, u) ==
    /\ inflight[h] = Idle
    /\ awaiting_ai[u] = "True"
    /\ answered[u] < MaxCount
    /\ total[u] < MaxCount
    /\ GetOrCreateUser(store, u, now).ai_questions_today < MaxCount
    /\ store' = GetOrCreateStore(store, u, now)
    /\ inflight' = [inflight EXCEPT ![h] =
                       [pc |-> "loaded", uid |-> u,
                        user |-> GetOrCreateUser(store, u, now)]]
    /\ UNCHANGED aux
    /\ UNCHANGED denied
    /\ UNCHANGED <<now, awaiting_ai, reply, ev, answered, granted>>
    /\ UNCHANGED <<total, recipes, offered, favorites>>

\* ... the increment of the loaded object, merge and commit
AiCommit(h) ==
    /\ inflight[h].pc = "loaded"
    /\ store' = CommitStore(store, inflight[h].uid, inflight[h].user)
    /\ inflight' = [inflight EXCEPT ![h].pc = "committed",
                                    ![h].user = Consume(inflight[h].user)]
    /\ granted' = IF Charged(inflight[h].user)
                  THEN [granted EXCEPT ![inflight[h].uid] = NULL]
                  ELSE granted
    /\ UNCHANGED aux
    /\ UNCHANGED denied
    /\ UNCHANGED <<now, awaiting_ai, reply, ev, answered>>
    /\ UNCHANGED <<total, recipes, offered, favorites>>

\* ... the answer is sent and the flag cleared
AiReply(h) ==
    /\ inflight[h].pc = "committed"
    /\ reply' = AnswerReply(inflight[h].uid, inflight[h].user)
    /\ awaiting_ai' = [awaiting_ai EXCEPT ![inflight[h].uid] = "False"]
    /\ answered' = IF Bypass(inflight[h].user, now) THEN answered
                   ELSE [answered EXCEPT ![inflight[h].uid] = @ + 1]
    /\ inflight' = [inflight EXCEPT ![h] = Idle]
    /\ total' = IF Charged(inflight[h].user)
                THEN [total EXCEPT ![inflight[h].uid] = @ + 1]
                ELSE total
    /\ UNCHANGED aux
    /\ UNCHANGED denied
    /\ UNCHANGED <<now, store, ev, granted>>
    /\ UNCHANGED <<recipes, offered, favorites>>

\* handle_ai_message with the flag unset or false: returns at once
IgnoreMessage(u) ==
    /\ awaiting_ai[u] # "True"
    /\ UNCHANGED vars

\* AdminDatabase.update_user_subscription
UpdateUserSubscription(u, tier, days) ==
    /\ store' = IF store[u] = NoUser THEN store
                ELSE [store EXCEPT ![u].subscription_type = tier,
                                   ![u].subscription_expires = now + Days(days)]
    /\ UNCHANGED aux
    /\ UNCHANGED denied
    /\ UNCHANGED <<now, awaiting_ai, reply, inflight, ev, answered, granted>>
    /\ UNCHANGED <<total, recipes, offered, favorites>>

Next ==
    \/ Tick
    \/ \E u \in Users : ShowMainMenu(u)
    \/ \E u \in Users : StartAiChat(u)
    \/ \E u \in Users : HandleAiMessage(u)
    \/ \E u \in Users : IgnoreMessage(u)
    \/ \E u \in Users, tier \in Tiers, days \in AdminDays :
          UpdateUserSubscription(u, tier, days)

\* requests handled one at a time (polling transport)
Spec == Init /\ [][Next]_vars

\* requests handled concurrently (webhook transport): the steps of
\* handle_ai_message interleave with each other and with other requests
NextRace ==
    \/ Tick
    \/ \E u \in Users : StartAiChat(u)
    \/ \E h \in Handlers, u \in Users : AiBegin(h, u)
    \/ \E h \in Handlers : AiCommit(h)
    \/ \E h \in Handlers : AiReply(h)
    \/ \E u \in Users : IgnoreMessage(u)

SpecRace == Init /\ [][NextRace]_vars

\* ------------------------------------------------ recipes and their views
\* select(Recipe).where(day_number == day, meal_type == meal_type)
RecipesFor(day, meal) ==
    {r \in recipes : r.day_number = day /\ r.meal_type = meal}

\* select(Recipe).where(day_number == day)
RecipesOfDay(day) == {r \in recipes : r.day_number = day}

\* the id an inserted recipe row is given (SQLite, the default database:
\* one more than the largest id in the table)
NewId(rs) ==
    IF rs = {} THEN 1
    ELSE (CHOOSE i \in {r.id : r \in rs} :
              \A j \in {r.id : r \in rs} : j <= i) + 1

\* recipe_save / AdminDatabase.create_or_update_recipe: with an id the row
\* of that id is overwritten, without one a new row is inserted
RecipeSave(id, day, meal) ==
    /\ IF id # NULL
       THEN recipes' = {IF r.id = id
                       THEN [id |-> id, day_number |-> day, meal_type |-> meal]
                       ELSE r : r \in recipes}
       ELSE /\ NewId(recipes) \in RecipeIds
            /\ recipes' = recipes \cup {[id |-> NewId(recipes),
                                         day_number |-> day,
                                         meal_type |-> meal]}
    /\ UNCHANGED aux
    /\ UNCHANGED denied
    /\ UNCHANGED <<now, store, awaiting_ai, reply, inflight, ev, answered,
                   granted, total, offered, favorites>>

\* AdminDatabase.delete_recipe
DeleteRecipe(id) ==
    /\ recipes' = {r \in recipes : r.id # id}
    /\ UNCHANGED aux
    /\ UNCHANGED denied
    /\ UNCHANGED <<now, store, awaiting_ai, reply, inflight, ev, answered,
                   granted, total, offered, favorites>>

\* show_days_menu (the menu_day button): a day_N button for every day
\* can_view_day allows, a locked_N button for the others
ShowDaysMenu(u) ==
    LET user == GetOrCreateUser(store, u, now)
    IN /\ store' = GetOrCreateStore(store, u, now)
       /\ offered' = [offered EXCEPT ![u] =
                         @ \cup {d \in ViewDays : CanViewDay(user, d, now)}]
       /\ reply' = [kind |-> "days", to |-> u, day |-> 0]
       /\ UNCHANGED aux
       /\ UNCHANGED denied
       /\ UNCHANGED <<now, awaiting_ai, inflight, ev, answered, granted,
                      total, recipes, favorites>>

\* show_day (a day_N button): the meal, shopday and total buttons of the day
ShowDay(u, day) ==
    /\ day \in offered[u]
    /\ reply' = [kind |-> "day", to |-> u, day |-> day]
    /\ UNCHANGED aux
    /\ UNCHANGED denied
    /\ UNCHANGED <<now, store, awaiting_ai, inflight, ev, answered, granted,
                   total, recipes, offered, favorites>>

\* show_meal (a meal_N_type button): the recipe; scalar_one_or_none raises
\* on more than one row
ShowMeal(u, day, meal) ==
    /\ day \in offered[u]
    /\ reply' = [kind |-> IF RecipesFor(day, meal) = {} THEN "not_found"
                          ELSE IF Cardinality(RecipesFor(day, meal)) > 1
                               THEN "raise"
                               ELSE "meal",
                 to |-> u, day |-> day]
    /\ UNCHANGED aux
    /\ UNCHANGED denied
    /\ UNCHANGED <<now, store, awaiting_ai, inflight, ev, answered, granted,
                   total, recipes, offered, favorites>>

\* show_shopday and show_total_day, the subscription test they share
LockedDay(u, day, t) ==
    /\ day > LOCK_AFTER_DAY
    /\ (store[u] = NoUser \/ store[u].subscription_type = "free")
    /\ \/ store[u] = NoUser
       \/ ~(store[u].subscription_expires # NULL
             /\ store[u].subscription_expires > t)

\* show_shopday (a shopday_N button): the shopping list of the day
ShowShopday(u, day) ==
    /\ day \in offered[u]
    /\ reply' = [kind |-> IF LockedDay(u, day, now) THEN "locked"
                          ELSE IF RecipesOfDay(day) = {} THEN "not_found"
                               ELSE "shopping",
                 to |-> u, day |-> day]
    /\ UNCHANGED aux
    /\ UNCHANGED denied
    /\ UNCHANGED <<now, store, awaiting_ai, inflight, ev, answered, granted,
                   total, recipes, offered, favorites>>

\* show_total_day (a total_N button): the totals of the day's recipes
ShowTotalDay(u, day) ==
    /\ day \in offered[u]
    /\ reply' = [kind |-> IF LockedDay(u, day, now) THEN "locked"
                          ELSE "total",
                 to |-> u, day |-> day]
    /\ UNCHANGED aux
    /\ UNCHANGED denied
    /\ UNCHANGED <<now, store, awaiting_ai, inflight, ev, answered, granted,
                   total, recipes, offered, favorites>>

NextView ==
    \/ Tick
    \/ \E u \in Users, tier \in Tiers, days \in AdminDays :
          UpdateUserSubscription(u, tier, days)
    \/ \E id \in {NULL} \cup RecipeIds, day \in FormDays, meal \in FormMeals :
          RecipeSave(id, day, meal)
    \/ \E id \in RecipeIds : DeleteRecipe(id)
    \/ \E u \in Users : ShowDaysMenu(u)
    \/ \E u \in Users, day \in ViewDays : ShowDay(u, day)
    \/ \E u \in Users, day \in ViewDays, meal \in ViewMeals :
          ShowMeal(u, day, meal)
    \/ \E u \in Users, day \in ViewDays : ShowShopday(u, day)
    \/ \E u \in Users, day \in ViewDays : ShowTotalDay(u, day)

\* the recipe catalogue, its administration and the handlers that show it
SpecView == Init /\ [][NextView]_vars

\* -------------------------------------------------------------- favourites
\* add_to_favorites up to the second select: the user, the recipe of the
\* button and the Favorite rows already stored for the pair
FavBegin(h, u, day, meal) ==
    /\ inflight[h] = Idle
    /\ day \in offered[u]
    /\ store' = GetOrCreateStore(store, u, now)
    /\ IF Cardinality(RecipesFor(day, meal)) = 1
       THEN /\ inflight' = [inflight EXCEPT ![h] =
                   [pc |-> "fav_checked", uid |-> u,
                    recipe |-> (CHOOSE r \in RecipesFor(day, meal) : TRUE).id,
                    existing |-> favorites[u][
                        (CHOOSE r \in RecipesFor(day, meal) : TRUE).id]]]
            /\ UNCHANGED reply
       ELSE /\ reply' = [kind |-> IF RecipesFor(day, meal) = {}
                                  THEN "fav_error" ELSE "raise",
                         to |-> u, day |-> day]
            /\ UNCHANGED inflight
    /\ UNCHANGED aux
    /\ UNCHANGED denied
    /\ UNCHANGED <<now, awaiting_ai, ev, answered, granted, total, recipes,
                   offered, favorites>>

\* ... and from there: a row is added unless one was found
FavCommit(h) ==
    /\ inflight[h].pc = "fav_checked"
    /\ favorites' = IF inflight[h].existing = 0
                    THEN [favorites EXCEPT
                             ![inflight[h].uid][inflight[h].recipe] = @ + 1]
                    ELSE favorites
    /\ reply' = [kind |-> IF inflight[h].existing = 0 THEN "fav_added"
                          ELSE IF inflight[h].existing = 1 THEN "fav_already"
                               ELSE "raise",
                 to |-> inflight[h].uid, day |-> 0]
    /\ inflight' = [inflight EXCEPT ![h] = Idle]
    /\ UNCHANGED aux
    /\ UNCHANGED denied
    /\ UNCHANGED <<now, store, awaiting_ai, ev, answered, granted, total,
                   recipes, offered>>

NextFav ==
    \/ \E id \in {NULL} \cup RecipeIds, day \in FormDays, meal \in FormMeals :
          RecipeSave(id, day, meal)
    \/ \E id \in RecipeIds : DeleteRecipe(id)
    \/ \E u \in Users : ShowDaysMenu(u)
    \/ \E h \in Handlers, u \in Users, day \in ViewDays, meal \in ViewMeals :
          FavBegin(h, u, day, meal)
    \/ \E h \in Handlers : FavCommit(h)

\* add_to_favorites under concurrent webhook requests
SpecFav == Init /\ [][NextFav]_vars

\* ------------------------------------------------------- the button router
\* str(day_num) in the callback data of a button
DayString(d) ==
    IF d = FREE_DAYS_VISIBLE THEN "7"
    ELSE IF d = FREE_DAYS_VISIBLE + 1 THEN "8" ELSE "?"

\* int(parts[1])
ParseInt(str) ==
    IF str = "7" THEN FREE_DAYS_VISIBLE
    ELSE IF str = "8" THEN FREE_DAYS_VISIBLE + 1 ELSE NULL

\* the callback data of the buttons the keyboards of bot.py carry, as the
\* list of their parts between underscores
CallbackData ==
    {<<"back", "main">>, <<"menu", "day">>, <<"favorites">>, <<"ask", "ai">>,
     <<"ask", "ai", "recipe">>, <<"aeroguide">>, <<"help">>,
     <<"subscription">>, <<"shopping">>}
    \cup {<<k, DayString(d)>> :
             k \in {"day", "locked", "shopday", "total"}, d \in ViewDays}
    \cup {<<k, DayString(d), m>> :
             k \in {"meal", "fav", "cooked"}, d \in ViewDays, m \in ViewMeals}

\* data.startswith(word + '_')
StartsWith(data, word) == Len(data) >= 2 /\ data[1] = word

\* the tests of button_handler, in the order of its if statements
Branches ==
    <<"back_main", "menu_day", "day_", "locked_", "meal_", "fav_",
      "favorites", "ask_ai", "aeroguide", "help", "shopday_", "total_",
      "subscription", "stub">>

\* the test of one if statement of button_handler
BranchTest(name, data) ==
    CASE name = "back_main" -> data = <<"back", "main">>
      [] name = "menu_day" -> data = <<"menu", "day">>
      [] name = "day_" -> StartsWith(data, "day")
      [] name = "locked_" -> StartsWith(data, "locked")
      [] name = "meal_" -> StartsWith(data, "meal")
      [] name = "fav_" -> StartsWith(data, "fav")
      [] name = "favorites" -> data = <<"favorites">>
      [] name = "ask_ai" ->
            data \in {<<"ask", "ai">>, <<"ask", "ai", "recipe">>}
      [] name = "aeroguide" -> data = <<"aeroguide">>
      [] name = "help" -> data = <<"help">>
      [] name = "shopday_" -> StartsWith(data, "shopday")
      [] name = "total_" -> StartsWith(data, "total")
      [] name = "subscription" -> data = <<"subscription">>
      [] name = "stub" ->
            data \in {<<"shopping">>, <<"buy", "basic">>, <<"buy", "pro">>}

\* the if statements of button_handler whose test the data passes
Matching(data) ==
    {i \in 1 .. Len(Branches) : BranchTest(Branches[i], data)}

\* the if statement that handles the data: the first that passes, if any
Branch(data) ==
    IF Matching(data) = {} THEN "none"
    ELSE Branches[CHOOSE i \in Matching(data) :
                      \A j \in Matching(data) : i <= j]

\* the branches on which query.answer() is called: every handler but
\* show_main_menu calls it, the locked_ and stub branches call it inline
AnsweringBranches ==
    {"menu_day", "day_", "locked_", "meal_", "fav_", "favorites", "ask_ai",
     "aeroguide", "help", "shopday_", "total_", "subscription", "stub"}

\* the branches whose handler adds a CookingHistory row: bot.py imports the
\* class and never constructs it
LoggingBranches == {}

\* the user holds a button with this callback data: the main menu once a
\* row exists, the buttons of a day once offered, the buttons below a recipe
\* while it is the message on display, a lock while the days menu shows it
Held(u, data) ==
    CASE data[1] \in {"day", "meal", "shopday", "total"} ->
            ParseInt(data[2]) \in offered[u]
      [] data[1] = "locked" ->
            /\ reply.kind = "days"
            /\ reply.to = u
            /\ ParseInt(data[2]) \notin offered[u]
      [] data[1] \in {"fav", "cooked"} ->
            /\ reply.kind = "meal"
            /\ reply.to = u
            /\ reply.day = ParseInt(data[2])
      [] data = <<"ask", "ai", "recipe">> ->
            reply.kind = "meal" /\ reply.to = u
      [] OTHER -> store[u] # NoUser

\* a handler that only sends a page: show_aeroguide, show_help,
\* show_subscription, the stub, the alert of a locked day
StaticPage(u, kind) ==
    /\ reply' = [kind |-> kind, to |-> u, day |-> 0]
    /\ UNCHANGED aux
    /\ UNCHANGED denied
    /\ UNCHANGED <<now, store, awaiting_ai, inflight, ev, answered, granted>>
    /\ UNCHANGED <<total, recipes, offered, favorites>>

\* show_favorites
ShowFavorites(u) ==
    /\ store' = GetOrCreateStore(store, u, now)
    /\ reply' = [kind |-> "favorites", to |-> u, day |-> 0]
    /\ UNCHANGED aux
    /\ UNCHANGED denied
    /\ UNCHANGED <<now, awaiting_ai, inflight, ev, answered, granted>>
    /\ UNCHANGED <<total, recipes, offered, favorites>>

\* button_handler: the callback query of a held button is routed to the
\* handler of the first test it passes; when it passes none the function
\* ends without doing anything
ButtonHandler(u, data) ==
    LET b == Branch(data)
    IN /\ Held(u, data)
       /\ CASE b = "back_main" -> ShowMainMenu(u)
            [] b = "menu_day" -> ShowDaysMenu(u)
            [] b = "day_" -> ShowDay(u, ParseInt(data[2]))
            [] b = "locked_" -> StaticPage(u, "alert")
            [] b = "meal_" -> ShowMeal(u, ParseInt(data[2]), data[3])
            [] b = "fav_" ->
                  \E h \in Handlers :
                      FavBegin(h, u, ParseInt(data[2]), data[3])
            [] b = "favorites" -> ShowFavorites(u)
            [] b = "ask_ai" -> StartAiChat(u)
            [] b = "aeroguide" -> StaticPage(u, "aeroguide")
            [] b = "help" -> StaticPage(u, "help")
            [] b = "shopday_" -> ShowShopday(u, ParseInt(data[2]))
            [] b = "total_" -> ShowTotalDay(u, ParseInt(data[2]))
            [] b = "subscription" -> StaticPage(u, "subscription")
            [] b = "stub" -> StaticPage(u, "stub")
            [] b = "none" -> UNCHANGED vars

NextButtons ==
    \/ \E u \in Users : ShowMainMenu(u)
    \/ \E u \in Users, data \in CallbackData : ButtonHandler(u, data)
    \/ \E h \in Handlers : FavCommit(h)
    \/ \E u \in Users : UpdateUserSubscription(u, "free", 0)
    \/ \E meal \in ViewMeals :
          RecipeSave(NULL, FREE_DAYS_VISIBLE + 1, meal)

\* /start and the buttons, next to an admin who adds a recipe and ends a
\* trial
SpecButtons == Init /\ [][NextButtons]_vars

\* ----------------------------------------------------------- user creation
\* mutant of the users table: telegram_id without its unique index
InsertAccepted_NoIndex(st, u) == TRUE

\* INSERT INTO users: the unique index on telegram_id rejects a second row
InsertAccepted(st, u) == st[u] = NoUser

\* get_or_create_user under concurrent webhook requests, up to the select
GocSelect(h, u) ==
    /\ inflight[h] = Idle
    /\ inflight' = [inflight EXCEPT ![h] =
                       [pc |-> "goc_selected", uid |-> u,
                        found |-> store[u] # NoUser]]
    /\ UNCHANGED aux
    /\ UNCHANGED denied
    /\ UNCHANGED <<now, store, awaiting_ai, reply, ev, answered, granted>>
    /\ UNCHANGED <<total, recipes, offered, favorites>>

\* ... and from there: the insert when no row was found (IntegrityError when
\* the index rejects it), then last_active is set and committed
GocCommit(h) ==
    LET u == inflight[h].uid
        insert == ~inflight[h].found
        raise == insert /\ ~InsertAccepted(store, u)
    IN /\ inflight[h].pc = "goc_selected"
       /\ store' = IF raise THEN store
                   ELSE IF insert /\ store[u] = NoUser
                        THEN [store EXCEPT ![u] = NewUser(now)]
                        ELSE [store EXCEPT ![u].last_active = now]
       /\ dup' = IF insert /\ ~raise /\ store[u] # NoUser
                 THEN [dup EXCEPT ![u] = @ + 1]
                 ELSE dup
       /\ reply' = [kind |-> IF raise THEN "raise" ELSE "user",
                    to |-> u, day |-> 0]
       /\ inflight' = [inflight EXCEPT ![h] = Idle]
       /\ UNCHANGED <<cooking_history, tokens, response, secret_key>>
       /\ UNCHANGED denied
       /\ UNCHANGED <<now, awaiting_ai, ev, answered, granted>>
       /\ UNCHANGED <<total, recipes, offered, favorites>>

NextCreate ==
    \/ Tick
    \/ \E h \in Handlers, u \in Users : GocSelect(h, u)
    \/ \E h \in Handlers : GocCommit(h)

\* get_or_create_user under concurrent webhook requests
SpecCreate == Init /\ [][NextCreate]_vars

\* ---------------------------------------------------------- administration
NextAdmin ==
    \/ Tick
    \/ \E u \in Users : ShowMainMenu(u)
    \/ \E u \in Users, tier \in FormTiers, days \in AdminDays :
          UpdateUserSubscription(u, tier, days)
    \/ \E id \in {NULL} \cup RecipeIds, day \in FormDays, meal \in FormMeals :
          RecipeSave(id, day, meal)
    \/ \E id \in RecipeIds : DeleteRecipe(id)

\* the admin panel next to a bot that creates users
SpecAdmin == Init /\ [][NextAdmin]_vars

\* ------------------------------------------------- admin panel: sessions
ADMIN_USERNAME == "admin"
ADMIN_PASSWORD == "secret"

\* what a login form can carry
FormUsernames == {ADMIN_USERNAME, "guest"}
FormPasswords == {ADMIN_PASSWORD, "wrong"}

\* request.cookies.get(SESSION_COOKIE_NAME) is None
NoCookie == [username |-> "none", issued |-> NULL, key |-> "none"]

\* SECRET_KEY: ADMIN_SECRET_KEY of the environment, or the fallback that
\* the source spells out
SecretKeys == {DEFAULT_SECRET_KEY, "configured"}

\* create_session_token: the payload, stamped with the instant and signed
\* with SECRET_KEY
CreateSessionToken(username, t) ==
    [username |-> username, issued |-> t, key |-> secret_key]

\* the cookies a request can carry: none, a token a login has issued, or a
\* payload of the sender's own making, stamped t and signed with the key
\* printed in the source
Cookies(t) ==
    {NoCookie} \cup tokens
        \cup {[username |-> ADMIN_USERNAME, issued |-> t,
                key |-> DEFAULT_SECRET_KEY]}

\* verify_password: bcrypt against ADMIN_PASSWORD_HASH, or the comparison
\* with ADMIN_PASSWORD when no hash is configured
VerifyPassword(password) == password = ADMIN_PASSWORD

\* authenticate_admin
AuthenticateAdmin(username, password) ==
    IF username # ADMIN_USERNAME THEN FALSE ELSE VerifyPassword(password)

\* verify_session_token: serializer.loads(token, max_age=MAX_AGE) succeeds
\* (BadSignature on a wrong signature, SignatureExpired on age > max_age)
VerifySessionToken(token, t) ==
    token.key = secret_key /\ t - token.issued <= MAX_AGE

\* get_current_admin returns (it raises the redirect otherwise)
GetCurrentAdmin(cookie, t) ==
    /\ cookie # NoCookie
    /\ VerifySessionToken(cookie, t)
    /\ cookie.username = ADMIN_USERNAME

\* login_post
LoginPost(username, password) ==
    /\ tokens' = IF AuthenticateAdmin(username, password)
                 THEN tokens \cup {CreateSessionToken(username, now)}
                 ELSE tokens
    /\ response' = [status |-> IF AuthenticateAdmin(username, password)
                               THEN "redirect_admin"
                               ELSE "redirect_login_error",
                    cookie |-> IF AuthenticateAdmin(username, password)
                               THEN CreateSessionToken(username, now)
                               ELSE NoCookie]
    /\ UNCHANGED <<dup, cooking_history, secret_key>>
    /\ UNCHANGED denied
    /\ UNCHANGED <<now, store, awaiting_ai, reply, inflight, ev, answered,
                   granted>>
    /\ UNCHANGED <<total, recipes, offered, favorites>>

\* logout: the cookie is deleted in the browser
Logout ==
    /\ response' = [status |-> "redirect_login", cookie |-> NoCookie]
    /\ UNCHANGED <<dup, cooking_history, tokens, secret_key>>
    /\ UNCHANGED denied
    /\ UNCHANGED <<now, store, awaiting_ai, reply, inflight, ev, answered,
                   granted>>
    /\ UNCHANGED <<total, recipes, offered, favorites>>

\* an admin route (Depends(get_current_admin)) called with a cookie: the
\* operation runs when get_current_admin returns, else the 307 to the login
AdminRoute(cookie, st, rs) ==
    /\ store' = IF GetCurrentAdmin(cookie, now) THEN st ELSE store
    /\ recipes' = IF GetCurrentAdmin(cookie, now) THEN rs ELSE recipes
    /\ response' = [status |-> IF GetCurrentAdmin(cookie, now)
                               THEN "served" ELSE "redirect_login",
                    cookie |-> cookie]
    /\ UNCHANGED <<dup, cooking_history, tokens, secret_key>>
    /\ UNCHANGED denied
    /\ UNCHANGED <<now, awaiting_ai, reply, inflight, ev, answered, granted>>
    /\ UNCHANGED <<total, offered, favorites>>

\* POST /admin/users/{user_id}/delete
AdminDeleteUser(cookie, u) ==
    AdminRoute(cookie, [store EXCEPT ![u] = NoUser], recipes)

\* POST /admin/recipes/save without an id
AdminRecipeCreate(cookie, day, meal) ==
    /\ NewId(recipes) \in RecipeIds
    /\ AdminRoute(cookie, store,
                  recipes \cup {[id |-> NewId(recipes), day_number |-> day,
                                 meal_type |-> meal]})

\* the state at startup, under either setting of ADMIN_SECRET_KEY
InitAuth ==
    /\ now = 0
    /\ store = [u \in Users |-> NoUser]
    /\ awaiting_ai = [u \in Users |-> "unset"]
    /\ reply = NoReply
    /\ inflight = [h \in Handlers |-> Idle]
    /\ ev = NoEval
    /\ answered = [u \in Users |-> 0]
    /\ granted = [u \in Users |-> NULL]
    /\ total = [u \in Users |-> 0]
    /\ recipes = {}
    /\ offered = [u \in Users |-> {}]
    /\ favorites = [u \in Users |-> [r \in RecipeIds |-> 0]]
    /\ dup = [u \in Users |-> 0]
    /\ denied = [u \in Users |-> NULL]
    /\ cooking_history = [u \in Users |-> [r \in RecipeIds |-> 0]]
    /\ tokens = {}
    /\ response = [status |-> "none"]
    /\ secret_key \in SecretKeys

NextAuth ==
    \/ Tick
    \/ \E u \in Users : ShowMainMenu(u)
    \/ \E name \in FormUsernames, pw \in FormPasswords : LoginPost(name, pw)
    \/ Logout
    \/ \E cookie \in Cookies(now), u \in Users : AdminDeleteUser(cookie, u)
    \/ \E cookie \in Cookies(now), meal \in ViewMeals :
          AdminRecipeCreate(cookie, FREE_DAYS_VISIBLE + 1, meal)

\* the admin panel behind its login
SpecAuth == InitAuth /\ [][NextAuth]_vars

\* ------------------------------------------ the decision functions alone
\* expiry instants from the past up to ten days after the latest now
EvalExpires == {NULL} \cup (0 .. MaxTime + Days(10))
EvalDayNumbers == {0, 1, FREE_DAYS_VISIBLE, FREE_DAYS_VISIBLE + 1, 30, 31}

\* every user row the columns of models.py admit, within the bounds
EvalUsers ==
    [exists : {TRUE},
     subscription_type : Tiers,
     subscription_expires : EvalExpires,
     ai_questions_today : {NULL} \cup (0 .. MaxCount),
     ai_questions_reset : {NULL} \cup (0 .. MaxTime),
     last_active : {0}]

InitEval ==
    /\ now \in 0 .. MaxTime
    /\ store \in [Users -> EvalUsers]
    /\ awaiting_ai = [u \in Users |-> "unset"]
    /\ reply = NoReply
    /\ inflight = [h \in Handlers |-> Idle]
    /\ ev = NoEval
    /\ answered = [u \in Users |-> 0]
    /\ granted = [u \in Users |-> NULL]
    /\ total = [u \in Users |-> 0]
    /\ recipes = {}
    /\ offered = [u \in Users |-> {}]
    /\ favorites = [u \in Users |-> [r \in RecipeIds |-> 0]]
    /\ dup = [u \in Users |-> 0]
    /\ denied = [u \in Users |-> NULL]
    /\ cooking_history = [u \in Users |-> [r \in RecipeIds |-> 0]]
    /\ tokens = {}
    /\ response = [status |-> "none"]
    /\ secret_key = DEFAULT_SECRET_KEY

EvalCheckSubscription(u) ==
    /\ ev' = [op |-> "check_subscription", user |-> store[u], t |-> now,
              result |-> CheckSubscription(store[u], now),
              after |-> CheckSubscriptionUser(store[u], now),
              again |-> CheckSubscription(
                            CheckSubscriptionUser(store[u], now), now)]
    /\ UNCHANGED aux
    /\ UNCHANGED denied
    /\ UNCHANGED <<now, store, awaiting_ai, reply, inflight, answered, granted>>
    /\ UNCHANGED <<total, recipes, offered, favorites>>

EvalCanViewDay(u, day) ==
    /\ ev' = [op |-> "can_view_day", user |-> store[u], t |-> now, day |-> day,
              result |-> CanViewDay(store[u], day, now),
              after |-> CanViewDayUser(store[u], day, now),
              again |-> CanViewDay(
                            CanViewDayUser(store[u], day, now), day, now)]
    /\ UNCHANGED aux
    /\ UNCHANGED denied
    /\ UNCHANGED <<now, store, awaiting_ai, reply, inflight, answered, granted>>
    /\ UNCHANGED <<total, recipes, offered, favorites>>

\* can_use_ai on a row it can evaluate
EvalCanUseAi(u) ==
    /\ ~CanUseAiRaises(store[u], now)
    /\ ev' = [op |-> "can_use_ai", user |-> store[u], t |-> now,
              result |-> CanUseAi(store[u], now),
              after |-> CanUseAiUser(store[u], now)]
    /\ UNCHANGED aux
    /\ UNCHANGED denied
    /\ UNCHANGED <<now, store, awaiting_ai, reply, inflight, answered, granted>>
    /\ UNCHANGED <<total, recipes, offered, favorites>>

\* can_use_ai on a row whose counter or reset instant is None
EvalCanUseAiRaise(u) ==
    /\ CanUseAiRaises(store[u], now)
    /\ ev' = [op |-> "raise", fn |-> "can_use_ai", user |-> store[u],
              t |-> now]
    /\ UNCHANGED aux
    /\ UNCHANGED denied
    /\ UNCHANGED <<now, store, awaiting_ai, reply, inflight, answered, granted>>
    /\ UNCHANGED <<total, recipes, offered, favorites>>

\* the lock test of show_shopday and show_total_day next to can_view_day
EvalLockedDay(u, day) ==
    /\ ev' = [op |-> "locked_day", user |-> store[u], t |-> now, day |-> day,
              result |-> LockedDay(u, day, now),
              view |-> CanViewDay(store[u], day, now)]
    /\ UNCHANGED aux
    /\ UNCHANGED denied
    /\ UNCHANGED <<now, store, awaiting_ai, reply, inflight, answered, granted>>
    /\ UNCHANGED <<total, recipes, offered, favorites>>

NextEval ==
    \/ \E u \in Users, day \in EvalDayNumbers : EvalLockedDay(u, day)
    \/ \E u \in Users : EvalCanUseAiRaise(u)
    \/ \E u \in Users : EvalCheckSubscription(u)
    \/ \E u \in Users, day \in EvalDayNumbers : EvalCanViewDay(u, day)
    \/ \E u \in Users : EvalCanUseAi(u)

SpecEval == InitEval /\ [][NextEval]_vars

\* ------------------------------------------------------------------ claims
\* the claims' own reading of "not on the bypass path": tier free, or the
\* subscription expired whatever the stored tier
QuotaLimited(user, t) ==
    \/ user.subscription_type = "free"
    \/ user.subscription_expires = NULL
    \/ user.subscription_expires <= t

\* active subscription of tier basic or pro
ActiveTier(user, t) ==
    /\ user.subscription_expires # NULL
    /\ user.subscription_expires > t
    /\ user.subscription_type \in {"basic", "pro"}

SameCounters(u) ==
    /\ store'[u].ai_questions_today = store[u].ai_questions_today
    /\ store'[u].ai_questions_reset = store[u].ai_questions_reset

\* C1: on no calendar day are more than FREE_AI_QUESTIONS_PER_DAY questions
\* answered to a user who is off the bypass path when answered.
C1_DailyQuota ==
    \A u \in Users : answered[u] <= FREE_AI_QUESTIONS_PER_DAY

\* C2: off the bypass path can_use_ai returns true iff the counter, taken as
\* 0 when ai_questions_reset is on another day, is below the limit; at
\* counter 5 it is true for a reset of an earlier day, false for one of today.
C2_CanUseAiIffBelowLimit ==
    (ev.op = "can_use_ai" /\ QuotaLimited(ev.user, ev.t)) =>
        LET stale == Date(ev.user.ai_questions_reset) # Date(ev.t)
            counter == IF stale THEN 0 ELSE ev.user.ai_questions_today
        IN /\ ev.result = (counter < FREE_AI_QUESTIONS_PER_DAY)
           /\ (ev.user.ai_questions_today = 5
                 /\ Date(ev.user.ai_questions_reset) < Date(ev.t)) => ev.result
           /\ (ev.user.ai_questions_today = 5
                 /\ Date(ev.user.ai_questions_reset) = Date(ev.t)) => ~ev.result

C2_Witness ==
    /\ ev.op = "can_use_ai"
    /\ QuotaLimited(ev.user, ev.t)
    /\ ev.user.ai_questions_today = 5
    /\ Date(ev.user.ai_questions_reset) < Date(ev.t)
    /\ ev.result

C4_LazyReset ==
    (ev.op = "can_use_ai") =>
        IF QuotaLimited(ev.user, ev.t)
           /\ Date(ev.user.ai_questions_reset) # Date(ev.t)
        THEN ev.after = [ev.user EXCEPT !.ai_questions_today = 0,
                                        !.ai_questions_reset = ev.t]
        ELSE ev.after = ev.user

C4_Witness ==
    /\ ev.op = "can_use_ai"
    /\ QuotaLimited(ev.user, ev.t)
    /\ Date(ev.user.ai_questions_reset) # Date(ev.t)
    /\ ev.user.ai_questions_today > 0
    /\ ev.after.ai_questions_today = 0
    /\ ev.after.ai_questions_reset = ev.t

\* C5: a free user whose stored ai_questions_reset is of an earlier day, who
\* passed the check today and has a question answered today, ends with the
\* stored counter 1 and the stored reset of today.
C5_RolloverReachesStore ==
    [][\A u \in Users :
         (/\ store[u] # NoUser
          /\ store[u].subscription_type = "free"
          /\ Date(store[u].ai_questions_reset) < Date(now)
          /\ granted[u] # NULL
          /\ Date(granted[u]) = Date(now)
          /\ HandleAiMessage(u))
         => (/\ store'[u].ai_questions_today = 1
             /\ Date(store'[u].ai_questions_reset) = Date(now))]_vars

\* C6: every question answered to a user off the bypass path raises the
\* stored ai_questions_today by exactly 1.
C6_Consumption ==
    [][\A u \in Users :
         (store[u] # NoUser /\ QuotaLimited(store[u], now)
            /\ HandleAiMessage(u))
         => store'[u].ai_questions_today
              = store[u].ai_questions_today + 1]_vars

\* C7: every increase of a user's stored ai_questions_today follows a granted
\* check of that user with no other increase in between.
C7_NeverChargedUngranted ==
    [][\A u \in Users :
         (/\ store[u] # NoUser
          /\ store'[u] # NoUser
          /\ store'[u].ai_questions_today > store[u].ai_questions_today)
         => granted[u] # NULL]_vars

\* C8: a free user at stored counter 4 with the reset of today is granted;
\* one answered question stores 5; at 5 every check of that day is denied;
\* at 5 with the reset of an earlier day the check is granted.
C8_EndToEnd ==
    [][\A u \in Users :
         (store[u] # NoUser /\ store[u].subscription_type = "free") =>
            LET today == Date(store[u].ai_questions_reset) = Date(now)
                n == store[u].ai_questions_today
            IN /\ (today /\ n = 4 /\ StartAiChat(u))
                    => (reply'.kind = "prompt" /\ awaiting_ai'[u] = "True")
               /\ (today /\ n = 4 /\ HandleAiMessage(u))
                    => store'[u].ai_questions_today = 5
               /\ (today /\ n = 5 /\ StartAiChat(u))
                    => (reply'.kind = "limit"
                        /\ awaiting_ai'[u] = awaiting_ai[u])
               /\ (Date(store[u].ai_questions_reset) < Date(now) /\ n = 5
                      /\ StartAiChat(u))
                    => (reply'.kind = "prompt"
                        /\ awaiting_ai'[u] = "True")]_vars

C8_Witness ==
    \E u \in Users :
        /\ store[u] # NoUser
        /\ store[u].subscription_type = "free"
        /\ store[u].ai_questions_today = 5
        /\ Date(store[u].ai_questions_reset) = Date(now)
        /\ store[u].last_active = now
        /\ reply.kind = "limit"

\* C9: where handle_ai_message increments the counter and shows the
\* remaining questions, a counter whose reset is of another day counts as 0:
\* after the first question answered on a day the stored counter is 1 and
\* the value shown is the limit less 1.
C9_StaleCounterIsZero ==
    [][\A u \in Users :
         (/\ store[u] # NoUser
          /\ store[u].subscription_type = "free"
          /\ Date(store[u].ai_questions_reset) # Date(now)
          /\ answered[u] = 0
          /\ HandleAiMessage(u))
         => (/\ store'[u].ai_questions_today = 1
             /\ reply'.remaining = FREE_AI_QUESTIONS_PER_DAY - 1)]_vars

\* C10: check_subscription returns active iff subscription_expires is set
\* and strictly later than now; otherwise active false, type "expired",
\* days_left 0, whatever the stored tier.
C10_ActiveIffUnexpired ==
    (ev.op = "check_subscription") =>
        LET exp == ev.user.subscription_expires
        IN /\ ev.result.active = (exp # NULL /\ exp > ev.t)
           /\ (exp = NULL \/ exp <= ev.t) =>
                 (/\ ev.result.active = FALSE
                  /\ ev.result.type = "expired"
                  /\ ev.result.days_left = 0)

C10_Witness ==
    /\ ev.op = "check_subscription"
    /\ ev.user.subscription_expires = ev.t
    /\ ev.user.subscription_type = "pro"
    /\ ev.result.active = FALSE
    /\ ev.result.type = "expired"

\* C11: for an active user check_subscription returns the stored tier as
\* type and the whole days from now to the expiry, rounded down, as
\* days_left: 10 for an expiry ten days ahead, 0 for less than a day.
C11_DaysLeftFloor ==
    (ev.op = "check_subscription"
       /\ ev.user.subscription_expires # NULL
       /\ ev.user.subscription_expires > ev.t) =>
        LET left == ev.user.subscription_expires - ev.t
            d == ev.result.days_left
        IN /\ ev.result.active
           /\ ev.result.type = ev.user.subscription_type
           /\ d \in Nat
           /\ Days(d) <= left
           /\ left < Days(d + 1)
           /\ (left = Days(10)) => d = 10
           /\ (left < Days(1)) => d = 0

C11_Witness ==
    /\ ev.op = "check_subscription"
    /\ ev.user.subscription_expires = ev.t + Days(10)
    /\ ev.user.subscription_type = "basic"
    /\ ev.result.active
    /\ ev.result.type = "basic"
    /\ ev.result.days_left = 10

\* C12: can_view_day is true for every day when the user is active;
\* otherwise it is true exactly for day <= FREE_DAYS_VISIBLE, hence for
\* day <= 0, and once false it stays false for every later day.
C12_CanViewDay ==
    (ev.op = "can_view_day") =>
        LET exp == ev.user.subscription_expires
            act == exp # NULL /\ exp > ev.t
        IN /\ act => ev.result
           /\ ~act => (ev.result = (ev.day <= FREE_DAYS_VISIBLE))
           /\ (ev.day <= 0) => ev.result
           /\ ~ev.result =>
                 \A d \in EvalDayNumbers :
                     d >= ev.day => ~CanViewDay(ev.user, d, ev.t)

C12_Witness ==
    /\ ev.op = "can_view_day"
    /\ ev.user.subscription_type = "pro"
    /\ ev.user.subscription_expires # NULL
    /\ ev.user.subscription_expires <= ev.t
    /\ ev.day = FREE_DAYS_VISIBLE + 1
    /\ ~ev.result

\* C14: check_subscription, can_view_day and can_use_ai return a result and
\* never raise, for every user row: a null expiry, a row just created, a
\* row whose ai_questions_reset or ai_questions_today was never set.
C14_NoFailure ==
    ev.op # "raise"

C16_CounterRace ==
    [][/\ \A h \in Handlers :
            (AiCommit(h) /\ Charged(inflight[h].user)) =>
                store'[inflight[h].uid].ai_questions_today
                    = inflight[h].user.ai_questions_today + 1
       /\ \A u \in Users :
            (store'[u] # NoUser /\ \A h \in Handlers : inflight'[h] = Idle)
                => store'[u].ai_questions_today <= total'[u]]_vars

C16_Witness ==
    \E u \in Users :
        /\ store[u] # NoUser
        /\ store[u].subscription_type = "free"
        /\ \A h \in Handlers : inflight[h] = Idle
        /\ total[u] = 2
        /\ store[u].ai_questions_today = 1

\* C17: what handle_ai_message answers and writes is the same in the
\* running process as in one that holds no state of earlier requests (its
\* awaiting_ai entry never written): the update and the store decide alone.
C17_RequestIndependence ==
    \A u \in Users :
        MessageOutcome(store, awaiting_ai[u], u, now)
            = MessageOutcome(store, "unset", u, now)

\* the subscription of the user is not active at instant t
Inactive(u, t) ==
    \/ store[u] = NoUser
    \/ store[u].subscription_expires = NULL
    \/ store[u].subscription_expires <= t

\* C13: to a user whose subscription is not active at that moment, neither
\* show_meal nor show_shopday nor show_total_day shows the recipe, the
\* shopping list or the totals of a day after FREE_DAYS_VISIBLE that has
\* recipes.  (show_day, which shows only the buttons of the day, is left
\* out: the statement is the weaker for it.)
C13_ContentGating ==
    [][\A u \in Users, day \in ViewDays :
         (/\ day > FREE_DAYS_VISIBLE
          /\ Inactive(u, now)
          /\ RecipesOfDay(day) # {}) =>
            /\ \A meal \in ViewMeals :
                  ShowMeal(u, day, meal) => reply'.kind # "meal"
            /\ ShowShopday(u, day) => reply'.kind # "shopping"
            /\ ShowTotalDay(u, day) => reply'.kind # "total"]_vars

\* C18: the favorites table holds at most one row for each user and recipe.
C18_FavoriteUnique ==
    \A u \in Users, r \in RecipeIds : favorites[u][r] <= 1

\* C19: the recipes table holds at most one row for each day_number and
\* meal_type, every day_number is in 1..30 and every meal_type is one of
\* breakfast, lunch, snack, dinner.
C19_RecipeIdentity ==
    /\ \A r1, r2 \in recipes :
          (r1.day_number = r2.day_number /\ r1.meal_type = r2.meal_type)
              => r1 = r2
    /\ \A r \in recipes :
          /\ r.day_number \in 1 .. 30
          /\ r.meal_type \in {"breakfast", "lunch", "snack", "dinner"}

\* C20: the stored subscription_type of every user is free, basic or pro.
C20_TierDomain ==
    \A u \in Users :
        store[u] # NoUser =>
            store[u].subscription_type \in {"free", "basic", "pro"}

C22_CookingLog ==
    /\ \A u \in Users, data \in CallbackData :
          (data[1] = "cooked" /\ Held(u, data)) =>
              Branch(data) \in LoggingBranches
    /\ \A u \in Users, r \in RecipeIds : cooking_history[u][r] >= 0

\* C23: a user denied by the limit on one day is permitted at every check
\* made on a later calendar day, whatever happened in between.
C23_RolloverLiveness ==
    [][\A u \in Users :
         (/\ denied[u] # NULL
          /\ denied[u] < Date(now)
          /\ StartAiChat(u))
         => (/\ reply'.kind = "prompt"
             /\ awaiting_ai'[u] = "True")]_vars

C23_Witness ==
    \E u \in Users :
        /\ store[u] # NoUser
        /\ store[u].subscription_type = "free"
        /\ store[u].ai_questions_today >= FREE_AI_QUESTIONS_PER_DAY
        /\ denied[u] # NULL
        /\ denied[u] < Date(now)
        /\ granted[u] = now
        /\ reply.kind = "prompt"

C25_CallSiteAgreement ==
    (ev.op = "locked_day") => (ev.result = ~ev.view)

\* C26: the stored ai_questions_today of every user is within
\* 0 .. FREE_AI_QUESTIONS_PER_DAY and the remaining questions shown after
\* an answer are never negative.
C26_StoredCounterBound ==
    /\ \A u \in Users :
          store[u] # NoUser =>
              /\ store[u].ai_questions_today >= 0
              /\ store[u].ai_questions_today <= FREE_AI_QUESTIONS_PER_DAY
    /\ reply.kind = "answer" => reply.remaining >= 0

\* C27: a text message received while awaiting_ai is unset or false is not
\* answered and changes neither the store nor the flag; an answer leaves
\* the flag false, and is sent only while the flag is set, so that one
\* granted check authorises one answer at most.
C27_OneAnswerPerGrant ==
    [][/\ \A u \in Users :
            (awaiting_ai[u] # "True" /\ IgnoreMessage(u)) =>
                UNCHANGED <<store, awaiting_ai, reply>>
       /\ \A u \in Users :
            HandleAiMessage(u) => awaiting_ai'[u] = "False"
       /\ \A h \in Handlers :
            AiReply(h) =>
                /\ awaiting_ai'[inflight[h].uid] = "False"
                /\ awaiting_ai[inflight[h].uid] = "True"]_vars

\* C28: after the main menu is shown (the Cancel button of the prompt, or
\* any return to the menu) no question is pending: the next text message
\* of the user is not answered and not counted.
C28_CancelWithdraws ==
    [][\A u \in Users :
         ShowMainMenu(u) => awaiting_ai'[u] # "True"]_vars

\* C29: every callback data a user can send from a button passes the test
\* of exactly one if statement of button_handler, and the branch taken
\* answers the callback query.
C29_DispatchTotal ==
    \A u \in Users, data \in CallbackData :
        Held(u, data) =>
            /\ Cardinality(Matching(data)) = 1
            /\ Branch(data) \in AnsweringBranches

\* a token a login issued for ADMIN_USERNAME at most MAX_AGE before t
ValidSession(cookie, t) ==
    /\ cookie \in tokens
    /\ cookie.username = ADMIN_USERNAME
    /\ cookie.issued <= t
    /\ t - cookie.issued <= MAX_AGE

\* a request to one of the admin routes carrying this cookie
AdminRequest(cookie) ==
    \/ \E u \in Users : AdminDeleteUser(cookie, u)
    \/ \E meal \in ViewMeals :
          AdminRecipeCreate(cookie, FREE_DAYS_VISIBLE + 1, meal)

\* C30: an admin route is served, and changes users or recipes, only for a
\* request carrying a token that a login with ADMIN_USERNAME and the right
\* password issued at most MAX_AGE earlier; any other request is redirected
\* to the login and changes nothing; a failed login issues no token.
C30_AdminAccessControl ==
    [][/\ \A name \in FormUsernames, pw \in FormPasswords :
            LoginPost(name, pw) =>
                IF name = ADMIN_USERNAME /\ pw = ADMIN_PASSWORD
                THEN tokens' = tokens \cup {response'.cookie}
                ELSE tokens' = tokens /\ response'.cookie = NoCookie
       /\ \A token \in tokens' : token.username = ADMIN_USERNAME
       /\ \A cookie \in Cookies(now) :
            AdminRequest(cookie) =>
                IF ValidSession(cookie, now)
                THEN response'.status = "served"
                ELSE /\ response'.status = "redirect_login"
                     /\ store' = store
                     /\ recipes' = recipes]_vars

====
